---- MODULE Spec2Model ----
(***************************************************************************)
(* Habit tracker: the completion ledger and the streak counters kept by    *)
(* ActiveHabitCard (handleComplete, handleUndo), the habit list loaded by  *)
(* HabitsPage (loadData), and habit creation by HabitDetailDialog          *)
(* (handleStartHabit), over the tables of the Supabase migration.          *)
(*                                                                         *)
(* The store (user_habits, habit_completions) is shared.  Every client is  *)
(* a browser session of the same signed-in user; it holds the habit list   *)
(* it loaded last (userHabits) and runs at most one handler at a time.     *)
(* Every await on the store is a step of its own, so handlers of different *)
(* clients interleave between their storage requests.  The onUpdate()      *)
(* reload that ends a handler is part of the handler's last step; loadData *)
(* is also a step of its own (mount, revisit).  Midnight passes between    *)
(* handler calls, never inside one.  InsertCompletion is a row written     *)
(* straight to the table, which the row-level policy of habit_completions  *)
(* allows to the habit's owner: loadData lists a habit only once it has a  *)
(* completion today, so no card can record the first completion of a day.  *)
(*                                                                         *)
(* WeeklyTracker (loadWeeklyData) and ProgressPage (loadProgressData) read *)
(* the same tables.  CommunityPage (loadCommunities, handleCreateCommunity,*)
(* handleJoinCommunity) works on the tables communities and                *)
(* community_members under their row-level policies; memberships can also  *)
(* be written straight through the store's API, as far as the policies of  *)
(* community_members allow.                                                *)
(***************************************************************************)
EXTENDS Integers, FiniteSets, Sequences, TLC

\* ---- bounds ----
\* last day of a run with two sessions, and of a run with one session
MaxDay == 1
MaxDaySolo == 2
\* rows ever inserted into habit_completions
MaxInserts == 4

Clients == {"A", "B"}
HabitIds == {1}
\* the users of the community page and their browser sessions
Users == {"u1", "u2"}
Sessions == {"u1a", "u1b", "u2a"}
SessionUser == ("u1a" :> "u1") @@ ("u1b" :> "u1") @@ ("u2a" :> "u2")

\* ---- inputs of the "Customize Your Habit" form ----
\* what the user leaves in the times-per-day number field
TimesPerDayInputs == {-1, 0, 2, 3}
\* text of the amount field ('' when left empty)
CustomAmountInputs == {"", "0", "-1"}
\* the forms filled in where two sessions run: the default target 1 (an
\* emptied field) or 3 a day, the amount field left empty
TwoSessionTimesPerDay == {0, 3}
TwoSessionAmounts == {""}

VARIABLES
  user_habits,        \* table user_habits: id -> row
  habit_completions,  \* table habit_completions: set of rows
  today,              \* current calendar day
  clock,              \* rows inserted so far: the time of day of the next insert
  userHabits,         \* per client: HabitsPage state, id -> card snapshot
  pc,                 \* per client: the handler in flight, with its closure
  result,             \* what the last handler call reported, and to whom
  hist,               \* per habit: streak at the start of today, record calls today
  weekData,           \* WeeklyTracker state: the 7 DayData it loaded last
  progressData,       \* ProgressPage state: habit id -> the progress it loaded last
  allCommunities,     \* per session: CommunityPage state, loading and the list it loaded last
  communities,        \* table communities: set of rows
  community_members,  \* table community_members: set of rows
  joining             \* per session: the CommunityPage handler in flight

\* what the pages outside HabitsPage read and write
statsVars == <<weekData, progressData, allCommunities>>
communityVars == <<communities, community_members, joining>>

vars == <<user_habits, habit_completions, today, clock, userHabits, pc, result, hist,
          statsVars, communityVars>>

\* ---- JavaScript helpers ----
Max(a, b) == IF a >= b THEN a ELSE b

\* an optional integer column: <<>> is null, <<n>> is n
Null == <<>>
Some(n) == <<n>>

\* x || d for a number or null
OrElse(opt, d) == IF opt = Null \/ opt[1] = 0 THEN d ELSE opt[1]

\* parseInt of the text of a number field
ParseInt(s) ==
  CASE s = "0" -> 0
    [] s = "-1" -> -1

\* ---- time ----
\* instants of a day; an insert takes one, so no two rows share an instant
TicksPerDay == MaxInserts

\* now()
Now == today * TicksPerDay + clock

\* new Date(ts).toISOString().split('T')[0]
DateOf(ts) == ts \div TicksPerDay

\* a date string compared with a timestamp stands for its midnight
StartOfDay(d) == d * TicksPerDay

\* ---- ledger queries ----
CompletionsOf(h) == {r \in habit_completions : r.user_habit_id = h}

CompletionsOn(h, d) == Cardinality({r \in CompletionsOf(h) : DateOf(r.completed_at) = d})

\* the latest row of the habit without the .gte('completed_at', today) filter
LatestAnyDay(h) ==
  {r \in CompletionsOf(h) :
     \A q \in CompletionsOf(h) : q.completed_at <= r.completed_at}

\* .eq('user_habit_id', habit.id).gte('completed_at', today)
\*   .order('completed_at', {ascending: false}).limit(1)
LatestToday(h) ==
  LET rows == {r \in CompletionsOf(h) : r.completed_at >= StartOfDay(today)}
  IN {r \in rows : \A q \in rows : q.completed_at <= r.completed_at}

\* ---- HabitsPage.loadData ----
\* habit_completions!inner with .gte('habit_completions.completed_at', today):
\* the embedded rows of a habit, and only habits that have one are returned
Embedded(h) == {r \in CompletionsOf(h) : r.completed_at >= StartOfDay(today)}

Card(h) ==
  [ id |-> h,
    current_streak |-> user_habits[h].current_streak,
    best_streak |-> user_habits[h].best_streak,
    times_per_day |-> IF user_habits[h].times_per_day = 0 THEN 1
                      ELSE user_habits[h].times_per_day,
    custom_amount |-> user_habits[h].custom_amount,
    completions_today |->
      Cardinality({r \in Embedded(h) : DateOf(r.completed_at) = today}) ]

Listed == {h \in DOMAIN user_habits : user_habits[h].is_active /\ Embedded(h) # {}}

LoadedHabits == [h \in Listed |-> Card(h)]

\* ---- ActiveHabitCard ----
isCompleted(habit) == habit.completions_today >= habit.times_per_day

NewStreak(habit) == habit.current_streak + 1

\* the best streak carried over without the comparison
NewBestStreakKept(habit) == habit.best_streak

NewBestStreak(habit) == Max(NewStreak(habit), habit.best_streak)

Idle == [op |-> "idle", habit |-> 0, current_streak |-> 0, best_streak |-> 0, target |-> 0]

NoResult ==
  [client |-> "", op |-> "none", habit |-> 0, outcome |-> "none", day |-> 0, found |-> 0]

\* found: the habit's completions today as the reporting step found them
Report(c, o, h, out) ==
  [client |-> c, op |-> o, habit |-> h, outcome |-> out, day |-> today,
   found |-> CompletionsOn(h, today)]

\* WeeklyTracker, ProgressPage and CommunityPage before their first load
NoStats ==
  /\ weekData = <<>>
  /\ progressData = <<>>
  /\ allCommunities = [s \in Sessions |-> [loading |-> TRUE, communities |-> {}]]

\* no CommunityPage handler in flight
NotJoining == [op |-> "idle", community |-> 0, code |-> <<>>, is_private |-> FALSE]

\* the community tables as the migration creates them
NoCommunities ==
  /\ communities = {}
  /\ community_members = {}
  /\ joining = [s \in Sessions |-> NotJoining]

\* HabitsPage before its first load, no handler in flight
NoCards ==
  /\ userHabits = [c \in Clients |-> <<>>]
  /\ pc = [c \in Clients |-> Idle]
  /\ result = NoResult

Init ==
  /\ user_habits = <<>>
  /\ habit_completions = {}
  /\ today = 0
  /\ clock = 0
  /\ NoCards
  /\ hist = <<>>
  /\ NoStats
  /\ NoCommunities

\* HabitsPage mounts or is revisited
LoadData(c) ==
  /\ pc[c] = Idle
  /\ userHabits' = [userHabits EXCEPT ![c] = LoadedHabits]
  /\ UNCHANGED <<user_habits, habit_completions, today, clock, pc, result, hist>>
  /\ UNCHANGED <<statsVars, communityVars>>

\* ---- HabitDetailDialog ----
\* onChange of the times-per-day field: parseInt(e.target.value) || 1
TimesPerDaySetting(v) == IF v = 0 THEN 1 ELSE v

\* settings.customAmount ? parseInt(settings.customAmount) : null
CustomAmountColumn(s) == IF s = "" THEN Null ELSE Some(ParseInt(s))

NewHabitRow(v, s) ==
  [ is_active |-> TRUE,
    current_streak |-> 0,
    best_streak |-> 0,
    times_per_day |-> TimesPerDaySetting(v),
    custom_amount |-> CustomAmountColumn(s),
    created_at |-> Now ]

\* "Start Habit": insert the row, then onStartHabit() reloads the page
HandleStartHabit(c, v, s) ==
  /\ pc[c] = Idle
  /\ DOMAIN user_habits # HabitIds
  /\ LET h == Cardinality(DOMAIN user_habits) + 1
     IN /\ user_habits' = user_habits @@ (h :> NewHabitRow(v, s))
        /\ hist' = hist @@ (h :> [start |-> 0, records |-> 0])
  /\ UNCHANGED <<habit_completions, today, clock, pc, result>>
  /\ UNCHANGED <<statsVars, communityVars>>
  /\ userHabits' = [userHabits EXCEPT ![c] = LoadedHabits']

\* ---- the store ----
\* a row of habit_completions with its column defaults
CompletionRow(h, amt) ==
  [id |-> Now, user_habit_id |-> h, completed_at |-> Now, amount |-> amt]

\* The owner inserts a completion through the store's API, leaving the
\* defaulted columns out (policy "Users can manage their completions").
InsertCompletion(h) ==
  /\ h \in DOMAIN user_habits
  /\ CompletionsOn(h, today) = 0
  /\ clock < MaxInserts
  /\ habit_completions' = habit_completions \cup {CompletionRow(h, 1)}
  /\ clock' = clock + 1
  /\ UNCHANGED <<user_habits, today, userHabits, pc, result, hist>>
  /\ UNCHANGED <<statsVars, communityVars>>

\* midnight passes
AdvanceDay(last) ==
  /\ today < last
  /\ \A c \in Clients : pc[c] = Idle
  /\ today' = today + 1
  /\ hist' = [h \in DOMAIN hist |->
                [start |-> user_habits[h].current_streak, records |-> 0]]
  /\ UNCHANGED <<user_habits, habit_completions, clock, userHabits, pc, result>>
  /\ UNCHANGED <<statsVars, communityVars>>

\* ---- ActiveHabitCard.handleComplete ----
\* amount: habit.custom_amount || 1
Amount(habit) == OrElse(habit.custom_amount, 1)

\* "Mark Complete" on the card of h: the guard, then the insert
HandleComplete(c, h) ==
  /\ pc[c] = Idle
  /\ h \in DOMAIN userHabits[c]
  /\ LET habit == userHabits[c][h]
     IN IF isCompleted(habit)
        THEN /\ result' = Report(c, "record", h, "silent")
             /\ UNCHANGED <<user_habits, habit_completions, today, clock, userHabits, pc, hist>>
        ELSE /\ clock < MaxInserts
             /\ habit_completions' =
                  habit_completions \cup {CompletionRow(h, Amount(habit))}
             /\ clock' = clock + 1
             /\ pc' = [pc EXCEPT ![c] =
                       [op |-> "complete", habit |-> h,
                        current_streak |-> NewStreak(habit),
                        best_streak |-> NewBestStreak(habit),
                        target |-> 0]]
             /\ hist' = [hist EXCEPT ![h].records = @ + 1]
             /\ UNCHANGED <<user_habits, today, userHabits, result>>
  /\ UNCHANGED <<statsVars, communityVars>>

\* the streak update, the success toast and onUpdate()
CompleteUpdate(c) ==
  /\ pc[c].op = "complete"
  /\ user_habits' = [user_habits EXCEPT
       ![pc[c].habit].current_streak = pc[c].current_streak,
       ![pc[c].habit].best_streak = pc[c].best_streak]
  /\ pc' = [pc EXCEPT ![c] = Idle]
  /\ result' = Report(c, "record", pc[c].habit, "success")
  /\ UNCHANGED <<habit_completions, today, clock, hist>>
  /\ UNCHANGED <<statsVars, communityVars>>
  /\ userHabits' = [userHabits EXCEPT ![c] = LoadedHabits']

\* ---- ActiveHabitCard.handleUndo ----
\* "Undo" on the card of h: the guard, then the select of the latest row
HandleUndo(c, h) ==
  /\ pc[c] = Idle
  /\ h \in DOMAIN userHabits[c]
  /\ LET habit == userHabits[c][h]
         completions == IF habit.completions_today = 0 THEN {} ELSE LatestToday(h)
     IN IF completions = {}
        THEN /\ result' = Report(c, "undo", h, "silent")
             /\ pc' = pc
        ELSE /\ \E r \in completions :
                  pc' = [pc EXCEPT ![c] =
                         [op |-> "undo", habit |-> h, current_streak |-> 0,
                          best_streak |-> 0, target |-> r.id]]
             /\ result' = result
  /\ UNCHANGED <<user_habits, habit_completions, today, clock, userHabits, hist>>
  /\ UNCHANGED <<statsVars, communityVars>>

\* the delete by id, the "Undone" toast and onUpdate()
UndoDelete(c) ==
  /\ pc[c].op = "undo"
  /\ habit_completions' = {r \in habit_completions : r.id # pc[c].target}
  /\ pc' = [pc EXCEPT ![c] = Idle]
  /\ result' = Report(c, "undo", pc[c].habit, "success")
  /\ UNCHANGED <<user_habits, today, clock, hist>>
  /\ UNCHANGED <<statsVars, communityVars>>
  /\ userHabits' = [userHabits EXCEPT ![c] = LoadedHabits']

\* the steps of the sessions cs, with midnights up to day last and the
\* form filled in with a target of tpds and an amount of amts
Step(cs, last, tpds, amts) ==
  \/ \E c \in cs : LoadData(c)
  \/ \E c \in cs, v \in tpds, s \in amts :
       HandleStartHabit(c, v, s)
  \/ \E h \in HabitIds : InsertCompletion(h)
  \/ AdvanceDay(last)
  \/ \E c \in cs, h \in HabitIds : HandleComplete(c, h)
  \/ \E c \in cs : CompleteUpdate(c)
  \/ \E c \in cs, h \in HabitIds : HandleUndo(c, h)
  \/ \E c \in cs : UndoDelete(c)

\* two sessions of the user
Next == Step(Clients, MaxDay, TwoSessionTimesPerDay, TwoSessionAmounts)

Spec == Init /\ [][Next]_vars

\* one session, over more days
NextSolo == Step({"A"}, MaxDaySolo, TimesPerDayInputs, CustomAmountInputs)

SpecSolo == Init /\ [][NextSolo]_vars

\* ---- the store refuses a write ----
\* the insert of handleComplete comes back with an error: it is thrown into
\* the catch branch, which shows "Failed to mark as complete"
HandleCompleteInsertFails(c, h) ==
  /\ pc[c] = Idle
  /\ h \in DOMAIN userHabits[c]
  /\ ~isCompleted(userHabits[c][h])
  /\ result' = Report(c, "record", h, "failed")
  /\ UNCHANGED <<user_habits, habit_completions, today, clock, userHabits, pc, hist>>
  /\ UNCHANGED <<statsVars, communityVars>>

\* the streak update comes back with an error: its result is not looked at,
\* the success toast and onUpdate() follow
CompleteUpdateFails(c) ==
  /\ pc[c].op = "complete"
  /\ pc' = [pc EXCEPT ![c] = Idle]
  /\ result' = Report(c, "record", pc[c].habit, "success")
  /\ UNCHANGED <<user_habits, habit_completions, today, clock, hist>>
  /\ UNCHANGED <<statsVars, communityVars>>
  /\ userHabits' = [userHabits EXCEPT ![c] = LoadedHabits']

\* the delete of handleUndo comes back with an error: its result is not
\* looked at, the "Undone" toast and onUpdate() follow
UndoDeleteFails(c) ==
  /\ pc[c].op = "undo"
  /\ pc' = [pc EXCEPT ![c] = Idle]
  /\ result' = Report(c, "undo", pc[c].habit, "success")
  /\ UNCHANGED <<user_habits, habit_completions, today, clock, hist>>
  /\ UNCHANGED <<statsVars, communityVars>>
  /\ userHabits' = [userHabits EXCEPT ![c] = LoadedHabits']

\* the writes of the sessions cs that the store refuses
FailStep(cs) ==
  \/ \E c \in cs, h \in HabitIds : HandleCompleteInsertFails(c, h)
  \/ \E c \in cs : CompleteUpdateFails(c)
  \/ \E c \in cs : UndoDeleteFails(c)

\* one session, over a store that may refuse any write
NextFail ==
  \/ Step({"A"}, MaxDay, TwoSessionTimesPerDay, TwoSessionAmounts)
  \/ FailStep({"A"})

SpecFail == Init /\ [][NextFail]_vars

\* ---- JavaScript numbers ----
\* A positive double is [hi, mid, lo, ex]: the 53-bit significand
\* hi * 2^36 + mid * 2^18 + lo, with 2^16 <= hi < 2^17, times 2^(ex - 52).
Limb == 2^18

Zero == [hi |-> 0, mid |-> 0, lo |-> 0, ex |-> 0]

\* the next double up: one unit more in the last place
Successor(x) ==
  LET lo == (x.lo + 1) % Limb
      mid == IF lo = 0 THEN (x.mid + 1) % Limb ELSE x.mid
      hi == IF lo = 0 /\ mid = 0 THEN x.hi + 1 ELSE x.hi
  IN IF hi = 2^17 THEN [hi |-> 2^16, mid |-> 0, lo |-> 0, ex |-> x.ex + 1]
     ELSE [hi |-> hi, mid |-> mid, lo |-> lo, ex |-> x.ex]

\* round to nearest, ties to even: rest of whole is what the significand x
\* leaves out
RoundToEven(x, rest, whole) ==
  IF 2 * rest > whole \/ (2 * rest = whole /\ x.lo % 2 = 1) THEN Successor(x) ELSE x

\* c / t of two integers, c >= 0 and t >= 1: long division, 53 bits kept
Quotient(c, t) ==
  IF c = 0 THEN Zero
  ELSE LET s == CHOOSE i \in 0..12 : c * 2^i >= t /\ (i = 0 \/ c * 2^(i - 1) < t)
           e == CHOOSE i \in 0..12 : t * 2^i <= c * 2^s /\ t * 2^(i + 1) > c * 2^s
           b == t * 2^e
           r0 == c * 2^s - b
           r1 == (r0 * 2^16) % b
           r2 == (r1 * Limb) % b
           r3 == (r2 * Limb) % b
       IN RoundToEven([hi |-> 2^16 + (r0 * 2^16) \div b,
                       mid |-> (r1 * Limb) \div b,
                       lo |-> (r2 * Limb) \div b,
                       ex |-> e - s], r3, b)

\* x * 100: the exact product has 59 or 60 bits, of which 53 are kept
Times100(x) ==
  IF x = Zero THEN Zero
  ELSE LET p0 == x.lo * 100
           p1 == x.mid * 100 + p0 \div Limb
           p2 == x.hi * 100 + p1 \div Limb
           cut == IF p2 < 2^23 THEN 2^6 ELSE 2^7
       IN RoundToEven([hi |-> p2 \div cut,
                       mid |-> (p1 % Limb) \div cut + (p2 % cut) * (Limb \div cut),
                       lo |-> (p0 % Limb) \div cut + ((p1 % Limb) % cut) * (Limb \div cut),
                       ex |-> x.ex + (IF p2 < 2^23 THEN 6 ELSE 7)],
                      (p0 % Limb) % cut, cut)

\* Math.round(x) for 0 <= x < 2^16: floor(x + 0.5)
MathRound(x) ==
  IF x = Zero \/ x.ex < -1 THEN 0
  ELSE (x.hi \div 2^(15 - x.ex) + 1) \div 2

\* Math.round((n / d) * 100)
RoundedPercent(n, d) == MathRound(Times100(Quotient(n, d)))

\* ---- WeeklyTracker.loadWeeklyData ----
\* the past 7 days including today, oldest first
Dates == [i \in 1..7 |-> today - 7 + i]

\* .from('user_habits').eq('is_active', true)
ActiveHabits == {h \in DOMAIN user_habits : user_habits[h].is_active}

\* the habits created before or on the date
habitsActiveOnDate(date) ==
  {h \in ActiveHabits : DateOf(user_habits[h].created_at) <= date}

\* .in('user_habit_id', ids).gte('completed_at', date).lt('completed_at', next date)
CompletionsOfDate(ids, date) ==
  {r \in habit_completions :
     /\ r.user_habit_id \in ids
     /\ r.completed_at >= StartOfDay(date)
     /\ r.completed_at < StartOfDay(date + 1)}

DayData(date) ==
  LET active == habitsActiveOnDate(date)
      completedHabits ==
        Cardinality({r.user_habit_id : r \in CompletionsOfDate(active, date)})
      totalHabits == Cardinality(active)
  IN IF totalHabits = 0
     THEN [date |-> date, completionRate |-> 0, completedHabits |-> 0, totalHabits |-> 0]
     ELSE [date |-> date,
           completionRate |-> RoundedPercent(completedHabits, totalHabits),
           completedHabits |-> completedHabits,
           totalHabits |-> totalHabits]

LoadWeeklyData ==
  /\ weekData' = [i \in 1..7 |-> DayData(Dates[i])]
  /\ UNCHANGED <<user_habits, habit_completions, today, clock, userHabits, pc, result, hist>>
  /\ UNCHANGED <<progressData, allCommunities, communityVars>>

\* ---- ProgressPage.loadProgressData ----
\* Math.floor((today.getTime() - createdAt.getTime()) / (1000 * 60 * 60 * 24)) + 1
DaysActive(h) == (Now - user_habits[h].created_at) \div TicksPerDay + 1

ProgressOf(h) ==
  LET completions == CompletionsOf(h)
      daysActive == DaysActive(h)
  IN [ id |-> h,
       current_streak |-> user_habits[h].current_streak,
       best_streak |-> user_habits[h].best_streak,
       total_completions |-> Cardinality(completions),
       days_active |-> daysActive,
       success_rate |-> IF daysActive > 0
                        THEN RoundedPercent(Cardinality(completions), daysActive)
                        ELSE 0,
       last_7_days |-> [i \in 1..7 |->
                          \E r \in completions : DateOf(r.completed_at) = Dates[i]] ]

LoadProgressData ==
  /\ progressData' = [h \in ActiveHabits |-> ProgressOf(h)]
  /\ UNCHANGED <<user_habits, habit_completions, today, clock, userHabits, pc, result, hist>>
  /\ UNCHANGED <<weekData, allCommunities, communityVars>>

\* ---- the stores the two pages are loaded from ----
\* the day of the load
StatsDays == {0, 2, 39}
\* habits started, completed habits, and the days up to today they were
\* completed on
StatsHabitCounts == {0, 1, 2, 3, 40}
StatsCompleted == {0, 1, 2, 23}
StatsRuns == {0, 1, 2, 23}

\* a habit started on day d at instant tick with the form left as it is
StartedHabit(d, tick) ==
  [ is_active |-> TRUE, current_streak |-> 0, best_streak |-> 0,
    times_per_day |-> 1, custom_amount |-> Null,
    created_at |-> StartOfDay(d) + tick ]

\* a completion of h inserted on day d at instant tick
InsertedCompletion(h, d, tick) ==
  [ id |-> (StartOfDay(d) + tick) * 100 + h, user_habit_id |-> h,
    completed_at |-> StartOfDay(d) + tick, amount |-> 1 ]

\* n habits, the first m started on day 0 and the others today; the first k
\* completed reps times a day on the run last days up to now
InitStats ==
  /\ today \in StatsDays
  /\ clock \in {0, TicksPerDay - 1}
  /\ \E n \in StatsHabitCounts, tick \in {0, TicksPerDay - 1} :
       \E m \in {x \in 0..n : x <= 1 \/ x = n} :
         /\ tick <= Now
         /\ user_habits = [h \in 1..n |->
                            IF h <= m THEN StartedHabit(0, tick)
                            ELSE StartedHabit(today, 0)]
  /\ \E k \in StatsCompleted, run \in StatsRuns, reps \in 1..2 :
       /\ k <= Cardinality(DOMAIN user_habits)
       /\ habit_completions =
            {r \in {InsertedCompletion(h, d, j) :
                      h \in 1..k, d \in 0..today, j \in 1..reps} :
               /\ r.completed_at > StartOfDay(today - run + 1) - 1
               /\ r.completed_at >= user_habits[r.user_habit_id].created_at
               /\ r.completed_at <= Now}
  /\ NoCards
  /\ hist = [h \in DOMAIN user_habits |-> [start |-> 0, records |-> 0]]
  /\ NoStats
  /\ NoCommunities

NextStats == LoadWeeklyData \/ LoadProgressData

SpecStats == InitStats /\ [][NextStats]_vars

\* ---- JavaScript strings, as sequences of characters ----
LowerCase ==
  << "a", "b", "c", "d", "e", "f", "g", "h", "i", "j", "k", "l", "m",
     "n", "o", "p", "q", "r", "s", "t", "u", "v", "w", "x", "y", "z" >>
UpperCase ==
  << "A", "B", "C", "D", "E", "F", "G", "H", "I", "J", "K", "L", "M",
     "N", "O", "P", "Q", "R", "S", "T", "U", "V", "W", "X", "Y", "Z" >>
Digits == {"0", "1", "2", "3", "4", "5", "6", "7", "8", "9"}

\* the uppercase letter of every lowercase letter
UpperOf ==
  [c \in {LowerCase[k] : k \in 1..26} |->
     UpperCase[CHOOSE k \in 1..26 : LowerCase[k] = c]]

toUpperCase(str) ==
  [i \in 1..Len(str) |->
     IF str[i] \in DOMAIN UpperOf THEN UpperOf[str[i]] ELSE str[i]]

RECURSIVE trim(_)
trim(str) ==
  IF str # <<>> /\ Head(str) = " " THEN trim(Tail(str))
  ELSE IF str # <<>> /\ str[Len(str)] = " " THEN trim(SubSeq(str, 1, Len(str) - 1))
  ELSE str

\* str.substring(from, to), 0 <= from <= to
substring(str, from, to) == SubSeq(str, from + 1, IF to < Len(str) THEN to ELSE Len(str))

\* ---- CommunityPage inputs ----
\* communities ever created, and ever created where they are joined
MaxCommunities == 2
MaxJoinable == 1
\* Math.random().toString(36): "0." and as many base-36 digits as tell the
\* number apart from its neighbours (0.5 is "0.i", 0 is "0")
RandomTexts ==
  { <<"0">>,
    <<"0", ".", "i">>,
    <<"0", ".", "4", "f", "z", "y", "o", "8", "2", "m", "v", "y", "r">> }
\* the name field of the create dialog
NameInputs == { <<>>, <<" ">>, <<" ", "R">> }
\* the code field of the join form
JoinCodeInputs ==
  { <<" ">>, <<"i">>, <<" ", "4", "f", "z", "y", "o", "8", " ">>,
    <<"z", "z", "z", "z", "z", "z">> }

\* ---- the community tables and their row-level policies ----
\* code TEXT NOT NULL UNIQUE, with the check left out
CodeNeverTaken(code) == FALSE

\* code TEXT NOT NULL UNIQUE
CodeTaken(code) == \E r \in communities : r.code = code

\* UNIQUE(community_id, user_id), with the check left out
MemberNeverExists(cid, u) == FALSE

\* UNIQUE(community_id, user_id)
MemberExists(cid, u) ==
  \E m \in community_members : m.community_id = cid /\ m.user_id = u

\* policy "Users can view communities they're members of".  Inside the
\* EXISTS subquery the unqualified id is community_members.id, the innermost
\* table that has the column, so the membership branch compares a row's
\* community_id with the row's own id.
CanViewCommunity(u, r) ==
  \/ r.owner_id = u
  \/ \E m \in community_members :
       m.community_id = m.id /\ m.user_id = u /\ m.status = "accepted"

\* policy "Users can view members of their communities"
CanViewMember(u, m) ==
  \/ \E r \in communities : r.id = m.community_id /\ r.owner_id = u
  \/ m.user_id = u

\* ids of member rows are apart from the ids of communities
UserNo == ("u1" :> 1) @@ ("u2" :> 2)

MemberRow(cid, u, status) ==
  [ id |-> 100 + 10 * cid + UserNo[u],
    community_id |-> cid, user_id |-> u, status |-> status ]

\* ---- CommunityPage ----
\* what a CommunityPage handler showed last: the title of its toast (without
\* the emoji that ends some titles), or "silent" when it returned without
\* one; code is the code it used
Toast(s, o, code, title) ==
  [client |-> s, op |-> o, code |-> code, outcome |-> title]

generateCommunityCode(random) == toUpperCase(substring(random, 2, 8))

\* "Create", with room for most communities: the guard, the insert of the
\* row and the toast (loadCommunities() is started, not awaited)
HandleCreateCommunity(s, name, isPrivate, random, most) ==
  /\ joining[s] = NotJoining
  /\ Cardinality(communities) < most
  /\ UNCHANGED <<community_members, joining>>
  /\ LET code == generateCommunityCode(random)
     IN IF trim(name) = <<>>
        THEN /\ result' = Toast(s, "create", code, "silent")
             /\ UNCHANGED communities
        ELSE IF CodeTaken(code)
        THEN /\ result' = Toast(s, "create", code, "Failed to create community")
             /\ UNCHANGED communities
        ELSE /\ communities' = communities \cup
                  {[ id |-> Cardinality(communities) + 1, name |-> trim(name),
                     code |-> code, is_private |-> isPrivate,
                     owner_id |-> SessionUser[s] ]}
             /\ result' = Toast(s, "create", code, "Community created!")
  /\ UNCHANGED <<user_habits, habit_completions, today, clock, userHabits, pc, hist, statsVars>>

\* the lookup with the .eq('code', ..) filter left out
CommunityOfAnyCode(u, code) == {r \in communities : CanViewCommunity(u, r)}

\* .from('communities').select('*').eq('code', code).single(), as u may read it
CommunityByCode(u, code) ==
  {r \in communities : r.code = code /\ CanViewCommunity(u, r)}

\* "Join": the guard and the lookup of the community by its code
HandleJoinCommunity(s, joinCode) ==
  /\ joining[s] = NotJoining
  /\ UNCHANGED <<communities, community_members>>
  /\ UNCHANGED <<user_habits, habit_completions, today, clock, userHabits, pc, hist, statsVars>>
  /\ LET code == toUpperCase(trim(joinCode))
         community == CommunityByCode(SessionUser[s], code)
     IN IF trim(joinCode) = <<>>
        THEN /\ result' = Toast(s, "join", code, "silent")
             /\ joining' = joining
        ELSE IF community = {}
        THEN /\ result' = Toast(s, "join", code, "Community not found")
             /\ joining' = joining
        ELSE /\ \E r \in community :
                  joining' = [joining EXCEPT ![s] =
                    [op |-> "check", community |-> r.id, code |-> r.code,
                     is_private |-> r.is_private]]
             /\ result' = result

\* .from('community_members').eq('community_id', ..).eq('user_id', ..).single()
ExistingMember(u, cid) ==
  {m \in community_members :
     m.community_id = cid /\ m.user_id = u /\ CanViewMember(u, m)}

\* the "already a member?" check
JoinCheckMember(s) ==
  /\ joining[s].op = "check"
  /\ IF ExistingMember(SessionUser[s], joining[s].community) # {}
     THEN /\ result' = Toast(s, "join", joining[s].code, "Already a member")
          /\ joining' = [joining EXCEPT ![s] = NotJoining]
     ELSE /\ result' = result
          /\ joining' = [joining EXCEPT ![s].op = "insert"]
  /\ UNCHANGED <<communities, community_members>>
  /\ UNCHANGED <<user_habits, habit_completions, today, clock, userHabits, pc, hist, statsVars>>

\* the insert of the membership and the toast
JoinInsert(s) ==
  /\ joining[s].op = "insert"
  /\ UNCHANGED communities
  /\ IF MemberExists(joining[s].community, SessionUser[s])
     THEN /\ result' = Toast(s, "join", joining[s].code, "Failed to join community")
          /\ UNCHANGED community_members
     ELSE /\ community_members' = community_members \cup
               {MemberRow(joining[s].community, SessionUser[s],
                          IF joining[s].is_private THEN "pending" ELSE "accepted")}
          /\ result' = Toast(s, "join", joining[s].code,
                              IF joining[s].is_private THEN "Request sent!"
                              ELSE "Joined community!")
  /\ joining' = [joining EXCEPT ![s] = NotJoining]
  /\ UNCHANGED <<user_habits, habit_completions, today, clock, userHabits, pc, hist, statsVars>>

\* status TEXT DEFAULT 'pending' CHECK (status IN (..))
Statuses == {"pending", "accepted", "rejected"}

\* A user inserts a membership of their own through the store's API (policy
\* "Users can join communities": WITH CHECK (auth.uid() = user_id), whatever
\* the status).
InsertMember(u, cid, status) ==
  /\ \E r \in communities : r.id = cid
  /\ ~MemberExists(cid, u)
  /\ community_members' = community_members \cup {MemberRow(cid, u, status)}
  /\ UNCHANGED <<communities, joining, result>>
  /\ UNCHANGED <<user_habits, habit_completions, today, clock, userHabits, pc, hist, statsVars>>

\* what the store answered to a request made through its API
StoreReply(u, o, title) == [client |-> u, op |-> o, code |-> <<>>, outcome |-> title]

\* policy "Owners can manage members": FOR UPDATE USING (the community of the
\* row is owned by auth.uid()), which is also its WITH CHECK
CanUpdateMember(actor, m) ==
  \E r \in communities : r.id = m.community_id /\ r.owner_id = actor

\* The user actor sets the status of the membership of u through the store's
\* API: .from('community_members').update({status}).eq('community_id', cid)
\* .eq('user_id', u).  The policy filters the rows the update applies to; an
\* update that applies to no row is no error.
UpdateMember(actor, cid, u, status) ==
  /\ \E m \in community_members :
       /\ m.community_id = cid /\ m.user_id = u
       /\ community_members' =
            IF CanUpdateMember(actor, m) /\ CanViewMember(actor, m)
            THEN (community_members \ {m}) \cup {[m EXCEPT !.status = status]}
            ELSE community_members
  /\ result' = StoreReply(actor, "update", "no error")
  /\ UNCHANGED <<communities, joining>>
  /\ UNCHANGED <<user_habits, habit_completions, today, clock, userHabits, pc, hist, statsVars>>

\* ---- CommunityPage.loadCommunities ----
\* .from('communities').select('*').eq('owner_id', user.id)
OwnedCommunities(u) ==
  {r \in communities : r.owner_id = u /\ CanViewCommunity(u, r)}

\* .from('community_members').select('status, communities (..)')
\*   .eq('user_id', user.id): the rows of u, each with its community when u
\* may read it ({} stands for the null of a community u may not read)
MemberCommunities(u) ==
  {[status |-> m.status,
    communities |-> {r \in communities : r.id = m.community_id /\ CanViewCommunity(u, r)}] :
     m \in {q \in community_members : q.user_id = u /\ CanViewMember(u, q)}}

\* the list the page shows: the owned communities, then those of the
\* memberships that are not in the list yet
CombinedCommunities(u) ==
  LET owned == {[id |-> r.id, code |-> r.code, is_owner |-> TRUE,
                 member_status |-> "accepted"] : r \in OwnedCommunities(u)}
      joined == {[id |-> r.id, code |-> r.code, is_owner |-> FALSE,
                  member_status |-> member.status] :
                   member \in MemberCommunities(u), r \in communities}
  IN owned \cup
     {c \in joined :
        /\ \E member \in MemberCommunities(u) :
             /\ member.status = c.member_status
             /\ \E r \in member.communities : r.id = c.id
        /\ \A o \in owned : o.id # c.id}

\* CommunityPage mounts, or a handler's loadCommunities() runs
LoadCommunities(s) ==
  /\ allCommunities' = [allCommunities EXCEPT ![s] =
       [loading |-> FALSE, communities |-> CombinedCommunities(SessionUser[s])]]
  /\ UNCHANGED <<weekData, progressData, communityVars, result>>
  /\ UNCHANGED <<user_habits, habit_completions, today, clock, userHabits, pc, hist>>

\* creating communities, in the sessions ss, with the random numbers
\* randoms and room for most
CreateStep(ss, randoms, most) ==
  \E s \in ss, name \in NameInputs, isPrivate \in BOOLEAN, random \in randoms :
    HandleCreateCommunity(s, name, isPrivate, random, most)

\* the steps of "Join" in the sessions ss
JoinHandlerStep(ss) ==
  \/ \E s \in ss, joinCode \in JoinCodeInputs : HandleJoinCommunity(s, joinCode)
  \/ \E s \in ss : JoinCheckMember(s)
  \/ \E s \in ss : JoinInsert(s)

\* joining them, and memberships written through the store's API
JoinStep(ss) ==
  \/ JoinHandlerStep(ss)
  \/ \E u \in Users, cid \in 1..MaxJoinable, status \in Statuses :
       InsertMember(u, cid, status)
  \/ \E actor \in Users, u \in Users, cid \in 1..MaxJoinable, status \in Statuses :
       UpdateMember(actor, cid, u, status)

\* two users create communities
NextCreate == CreateStep({"u1a", "u2a"}, RandomTexts, MaxCommunities)

SpecCreate == Init /\ [][NextCreate]_vars

\* the random numbers whose code the join form accepts (it is not blank)
JoinableRandomTexts ==
  {random \in RandomTexts : trim(generateCommunityCode(random)) # <<>>}

\* one user creates communities, and two users join them
NextJoin ==
  \/ CreateStep({"u1a"}, JoinableRandomTexts, MaxJoinable)
  \/ JoinStep({"u1a", "u2a"})

SpecJoin == Init /\ [][NextJoin]_vars

\* one user creates communities, and two users join them through the page
NextPage ==
  \/ CreateStep({"u1a"}, JoinableRandomTexts, MaxJoinable)
  \/ JoinHandlerStep({"u1a", "u2a"})

SpecPage == Init /\ [][NextPage]_vars

\* one user creates communities and joins them from two browser sessions
NextRace ==
  \/ CreateStep({"u1a"}, JoinableRandomTexts, MaxJoinable)
  \/ JoinHandlerStep({"u1a", "u1b"})

SpecRace == Init /\ [][NextRace]_vars

\* one user creates communities, two users join them and load their lists
NextVisible ==
  \/ CreateStep({"u1a"}, JoinableRandomTexts, MaxJoinable)
  \/ JoinStep({"u1a", "u2a"})
  \/ \E s \in {"u1a", "u2a"} : LoadCommunities(s)

SpecVisible == Init /\ [][NextVisible]_vars

TypeOK ==
  /\ today \in 0..MaxDaySolo
  /\ clock \in 0..MaxInserts
  /\ DOMAIN user_habits \subseteq HabitIds

\* ---- the streak as the ledger defines it ----
AllIdle == \A c \in Clients : pc[c] = Idle

CountOn(ledger, h, d) ==
  Cardinality({r \in ledger : r.user_habit_id = h /\ DateOf(r.completed_at) = d})

\* d is a qualifying day of h: completionsOn(d) >= timesPerDay
Qualifies(ledger, h, d) == CountOn(ledger, h, d) >= user_habits[h].times_per_day

RECURSIVE RunEndingAt(_, _, _)
\* consecutive qualifying days of h ending on day d
RunEndingAt(ledger, h, d) ==
  IF d < 0 \/ ~Qualifies(ledger, h, d) THEN 0
  ELSE 1 + RunEndingAt(ledger, h, d - 1)

\* the run ending today, or ending yesterday while today does not qualify yet
LedgerStreak(ledger, h) ==
  IF Qualifies(ledger, h, today) THEN RunEndingAt(ledger, h, today)
  ELSE RunEndingAt(ledger, h, today - 1)

\* C1: in every state the stored best streak of every habit is at least its
\* stored current streak.
C1_BestAtLeastCurrent ==
  \A h \in DOMAIN user_habits :
    user_habits[h].best_streak >= user_habits[h].current_streak

\* two records went through, then an undo
C1_Witness ==
  \E h \in DOMAIN user_habits :
    /\ result.op = "undo" /\ result.outcome = "success" /\ result.habit = h
    /\ user_habits[h].current_streak >= 2
    /\ user_habits[h].best_streak >= 2

\* C2: after every record and every undoLast that went through, the stored
\* current streak of the habit equals the streak recomputed from the ledger.
C2_StreakMatchesLedger ==
  [][\A c \in Clients, h \in HabitIds :
       ( /\ CompleteUpdate(c) \/ UndoDelete(c)
         /\ pc[c].habit = h
         /\ user_habits[h].times_per_day >= 1 )
       => user_habits'[h].current_streak = LedgerStreak(habit_completions', h)]_vars

\* C3: once the n = timesPerDay record calls of a day are done and they are
\* the day's completions, the current streak is the value it had at the start
\* of the day plus one if yesterday qualified, and 1 otherwise.
C3_OneRaisePerDay ==
  \A h \in DOMAIN user_habits :
    ( /\ AllIdle
      /\ user_habits[h].times_per_day >= 1
      /\ hist[h].records = user_habits[h].times_per_day
      /\ CompletionsOn(h, today) = user_habits[h].times_per_day )
    => user_habits[h].current_streak =
         IF today > 0 /\ Qualifies(habit_completions, h, today - 1)
         THEN hist[h].start + 1 ELSE 1

\* C4: when a habit qualified on an earlier day, did not qualify yesterday,
\* and a record makes today qualify, that record leaves the current streak 1.
C4_ResetAfterGap ==
  [][\A c \in Clients, h \in HabitIds :
       ( /\ CompleteUpdate(c)
         /\ pc[c].habit = h
         /\ user_habits[h].times_per_day >= 1
         /\ today >= 2
         /\ \E d \in 0..(today - 2) : Qualifies(habit_completions, h, d)
         /\ ~Qualifies(habit_completions, h, today - 1)
         /\ CompletionsOn(h, today) = user_habits[h].times_per_day )
       => user_habits'[h].current_streak = 1]_vars

\* C5: the stored best streak of a habit never decreases.
C5_BestNeverDecreases ==
  [][\A h \in DOMAIN user_habits :
       user_habits'[h].best_streak >= user_habits[h].best_streak]_vars

\* C6: a record call on a habit whose target for today is already met still
\* appends one completion.
C6_NoDailyCap ==
  [][\A c \in Clients, h \in HabitIds :
       ( /\ HandleComplete(c, h)
         /\ user_habits[h].times_per_day >= 1
         /\ CompletionsOn(h, today) >= user_habits[h].times_per_day )
       => CountOn(habit_completions', h, today) = CompletionsOn(h, today) + 1]_vars

\* C7: when a caller's undoLast took a habit's completions today from n to
\* n - 1, a record call of that caller that follows it on the same day, with
\* the completions still n - 1, brings them back to n.
C7_UndoThenRecordRestores ==
  [][\A c \in Clients, h \in HabitIds :
       ( /\ result = [client |-> c, op |-> "undo", habit |-> h, outcome |-> "success",
                      day |-> today, found |-> result.found]
         /\ CompletionsOn(h, today) = result.found - 1
         /\ user_habits[h].times_per_day >= 1
         /\ HandleComplete(c, h) )
       => CountOn(habit_completions', h, today) = result.found]_vars

\* C8: an undoLast call on a habit without a completion today reports a
\* NotFoundError to its caller.
C8_UndoNothingFails ==
  [][\A c \in Clients, h \in HabitIds :
       (HandleUndo(c, h) /\ CompletionsOn(h, today) = 0)
       => (result'.client = c /\ result'.outcome = "NotFoundError")]_vars

\* C9: an undoLast call on a habit without a completion today ends without a
\* delete and leaves every row of the ledger in place, whatever the caller's
\* card says about completions_today.
C9_UndoNothingKeepsLedger ==
  [][\A c \in Clients, h \in HabitIds :
       (HandleUndo(c, h) /\ CompletionsOn(h, today) = 0)
       => (pc'[c] = Idle /\ habit_completions' = habit_completions)]_vars

\* an undo from a card of an earlier day found nothing to remove today
C9_Witness ==
  /\ result.op = "undo" /\ result.outcome = "silent"
  /\ result.habit \in DOMAIN userHabits[result.client]
  /\ userHabits[result.client][result.habit].completions_today > 0
  /\ CompletionsOn(result.habit, today) = 0
  /\ CompletionsOf(result.habit) # {}
  /\ AllIdle

\* C10: every completion in the ledger has amount >= 1.
C10_AmountAtLeastOne == \A r \in habit_completions : r.amount >= 1

\* C11: every stored habit has times_per_day >= 1 (a start with an input
\* below 1 is rejected and stores no row).
C11_TimesPerDayAtLeastOne ==
  \A h \in DOMAIN user_habits : user_habits[h].times_per_day >= 1

\* round(100 * n / d), halves up
RoundPercent(n, d) == (200 * n + d) \div (2 * d)

\* C12: the weekly tracker holds one entry for each of the 7 days ending
\* today, oldest first, and for each day d: totalHabits is the number of the
\* user's habits created on or before d, completedHabits the number of those
\* with a completion on d, and completionRate is round(100 * completedHabits
\* / totalHabits), 0 when no habit is eligible.
C12_WeeklyTracker ==
  weekData # <<>> =>
    /\ Len(weekData) = 7
    /\ \A i \in 1..7 :
         LET d == today - 7 + i
             eligible == {h \in DOMAIN user_habits :
                            DateOf(user_habits[h].created_at) <= d}
             completed == {h \in eligible : CompletionsOn(h, d) > 0}
         IN /\ weekData[i].date = d
            /\ weekData[i].totalHabits = Cardinality(eligible)
            /\ weekData[i].completedHabits = Cardinality(completed)
            /\ weekData[i].completedHabits <= weekData[i].totalHabits
            /\ weekData[i].completionRate =
                 IF eligible = {} THEN 0
                 ELSE RoundPercent(Cardinality(completed), Cardinality(eligible))

\* C13: the progress of every habit reports days_active = whole days elapsed
\* since the habit was created plus one (at least 1), total_completions = the
\* number of all its completions, and success_rate = round(100 *
\* total_completions / days_active).
C13_HabitProgress ==
  \A h \in DOMAIN progressData :
    /\ progressData[h].days_active = (Now - user_habits[h].created_at) \div TicksPerDay + 1
    /\ progressData[h].days_active >= 1
    /\ progressData[h].total_completions = Cardinality(CompletionsOf(h))
    /\ progressData[h].success_rate =
         RoundPercent(progressData[h].total_completions, progressData[h].days_active)

\* C14: no two communities share a code.
C14_CodesUnique ==
  \A a \in communities, b \in communities : a.code = b.code => a = b

\* a create that generated a code already in use ended without a second row
C14_Witness ==
  /\ result.op = "create" /\ result.outcome = "Failed to create community"
  /\ \E r \in communities : r.code = result.code /\ r.owner_id # SessionUser[result.client]

\* C15: a create with a non-blank name whose generated code is already in
\* use does not fail on that collision.
C15_RegeneratesOnCollision ==
  [][\A s \in Sessions, name \in NameInputs, isPrivate \in BOOLEAN, random \in RandomTexts :
       ( /\ HandleCreateCommunity(s, name, isPrivate, random, MaxCommunities)
         /\ trim(name) # <<>>
         /\ CodeTaken(generateCommunityCode(random)) )
       => /\ result'.outcome = "Community created!"
          /\ Cardinality(communities') = Cardinality(communities) + 1]_vars

\* C16: the code of every created community is 6 characters long, each an
\* uppercase letter or a digit.
C16_CodeShape ==
  \A r \in communities :
    /\ Len(r.code) = 6
    /\ \A i \in 1..Len(r.code) :
         r.code[i] \in Digits \/ \E k \in 1..26 : UpperCase[k] = r.code[i]

\* C17: a create with a blank name reports a ValidationError to its caller
\* and creates no community.
C17_BlankNameFails ==
  [][\A s \in Sessions, name \in NameInputs, isPrivate \in BOOLEAN, random \in RandomTexts :
       ( /\ HandleCreateCommunity(s, name, isPrivate, random, MaxCommunities)
         /\ trim(name) = <<>> )
       => /\ result'.client = s /\ result'.outcome = "ValidationError"
          /\ communities' = communities]_vars

\* C18: a join with the code (not blank) of an existing community, typed in
\* any letter case by a user who neither owns it nor has a membership of it,
\* finds the community, and its insert adds exactly one membership of that user,
\* "pending" for a private community and "accepted" otherwise.
C18_JoinCreatesMembership ==
  [][\A s \in Sessions :
       /\ \A joinCode \in JoinCodeInputs :
            ( /\ HandleJoinCommunity(s, joinCode)
              /\ trim(joinCode) # <<>>
              /\ \E r \in communities :
                   /\ r.code = toUpperCase(trim(joinCode))
                   /\ r.owner_id # SessionUser[s]
                   /\ ~MemberExists(r.id, SessionUser[s]) )
            => joining'[s].op = "check"
       /\ ( JoinInsert(s) /\ ~MemberExists(joining[s].community, SessionUser[s]) )
            => \E m \in community_members' :
                 /\ community_members' = community_members \cup {m}
                 /\ m \notin community_members
                 /\ m.community_id = joining[s].community
                 /\ m.user_id = SessionUser[s]
                 /\ \A r \in communities : r.id = m.community_id =>
                      m.status = IF r.is_private THEN "pending" ELSE "accepted"]_vars

C20_SecondJoinConflicts ==
  [][\A s \in Sessions :
       /\ \A joinCode \in JoinCodeInputs :
            ( /\ HandleJoinCommunity(s, joinCode)
              /\ trim(joinCode) # <<>>
              /\ \E r \in communities :
                   /\ r.code = toUpperCase(trim(joinCode))
                   /\ MemberExists(r.id, SessionUser[s]) )
            => joining'[s].op = "check"
       /\ ( JoinCheckMember(s) /\ MemberExists(joining[s].community, SessionUser[s]) )
            => /\ result'.client = s /\ result'.outcome = "Already a member"
               /\ community_members' = community_members]_vars

\* C21: however the joins of one user to one community interleave (each may
\* pass the membership check before the other inserts), the pair never has
\* two membership rows, and an insert that finds a row of the pair reports a
\* failure and adds nothing: only one of the calls succeeds.
C21_ConcurrentJoinsOneRow ==
  [][/\ \A a \in community_members', b \in community_members' :
          (a.community_id = b.community_id /\ a.user_id = b.user_id) => a = b
     /\ \A s \in Sessions :
          ( /\ JoinInsert(s)
            /\ \E m \in community_members :
                 m.community_id = joining[s].community /\ m.user_id = SessionUser[s] )
          => /\ result' = Toast(s, "join", joining[s].code, "Failed to join community")
             /\ community_members' = community_members]_vars

\* two sessions passed the check, one inserted, the other is refused
C21_Witness ==
  /\ result.op = "join" /\ result.outcome = "Failed to join community"
  /\ \E r \in communities, m \in community_members :
       /\ r.code = result.code /\ m.community_id = r.id
       /\ m.user_id = SessionUser[result.client]
       /\ m.status = IF r.is_private THEN "pending" ELSE "accepted"

\* C22: a status update of a membership by a user who does not own the
\* community (the member included) reports an AuthorizationError and leaves
\* the memberships as they are.
C22_OnlyOwnerSetsStatus ==
  [][\A actor \in Users, u \in Users, status \in Statuses, r \in communities :
       ( /\ r.owner_id # actor
         /\ UpdateMember(actor, r.id, u, status) )
       => /\ result' = StoreReply(actor, "update", "AuthorizationError")
          /\ community_members' = community_members]_vars

\* the status of the membership of u in the community cid among rows,
\* "none" when there is no row
StatusIn(rows, cid, u) ==
  IF \E m \in rows : m.community_id = cid /\ m.user_id = u
  THEN (CHOOSE m \in rows : m.community_id = cid /\ m.user_id = u).status
  ELSE "none"

\* C23: in every step the status of every (community, user) pair stays as it
\* is or goes from none to pending, from none to accepted (in a community
\* that is not private), from pending to accepted or from pending to
\* rejected.
C23_StatusTransitions ==
  [][\A r \in communities, u \in Users :
       LET old == StatusIn(community_members, r.id, u)
           new == StatusIn(community_members', r.id, u)
       IN \/ new = old
          \/ old = "none" /\ new = "pending"
          \/ old = "none" /\ new = "accepted" /\ ~r.is_private
          \/ old = "pending" /\ new \in {"accepted", "rejected"}]_vars

\* C25: no membership row has the owner of its community as its user.
C25_NoOwnerMembership ==
  \A m \in community_members, r \in communities :
    m.community_id = r.id => m.user_id # r.owner_id

\* C24: the list a user loads holds exactly the communities the user owns
\* and the communities where the user has an accepted membership, each once.
C24_VisibleCommunities ==
  [][\A s \in Sessions :
       LoadCommunities(s) =>
         LET u == SessionUser[s]
             list == allCommunities'[s].communities
         IN /\ {c.id : c \in list} =
                 {r.id : r \in {q \in communities :
                    \/ q.owner_id = u
                    \/ \E m \in community_members :
                         /\ m.community_id = q.id /\ m.user_id = u
                         /\ m.status = "accepted"}}
            /\ \A a \in list, b \in list : a.id = b.id => a = b]_vars

\* C26: when two record calls on one habit overlap, both having read the
\* stored streak and inserted their completion before either updates the
\* streak, the update that comes last leaves the streak of the two calls run
\* one after the other: the stored streak plus two, and the best streak to
\* match.
C26_RecordAtomic ==
  [][\A c \in Clients, d \in Clients, h \in HabitIds :
       ( /\ c # d
         /\ pc[c].op = "complete" /\ pc[c].habit = h
         /\ pc[d].op = "complete" /\ pc[d].habit = h
         /\ pc[c].current_streak = user_habits[h].current_streak + 1
         /\ pc[d].current_streak = user_habits[h].current_streak + 1
         /\ CompleteUpdate(c) )
       => /\ pc'[d].current_streak = user_habits[h].current_streak + 2
          /\ pc'[d].best_streak =
               Max(user_habits[h].best_streak, user_habits[h].current_streak + 2)]_vars

\* C28: an undoLast on a habit with a completion today picks the completion
\* of the habit that is the latest of today, and its delete removes exactly
\* that row and leaves every other row of the ledger in place.
C28_UndoRemovesLatest ==
  [][\A c \in Clients, h \in HabitIds :
       /\ ( HandleUndo(c, h) /\ CompletionsOn(h, today) >= 1 )
            => /\ pc'[c].op = "undo"
               /\ \E r \in CompletionsOf(h) :
                    /\ r.id = pc'[c].target
                    /\ DateOf(r.completed_at) = today
                    /\ \A q \in CompletionsOf(h) :
                         DateOf(q.completed_at) = today => q.completed_at <= r.completed_at
       /\ ( UndoDelete(c) /\ pc[c].habit = h )
            => \E r \in CompletionsOf(h) :
                 /\ r.id = pc[c].target
                 /\ habit_completions' = habit_completions \ {r}]_vars

\* C29: the list a session loads holds every active habit, each with the
\* number of its completions today, the habits without a completion today
\* included.
C29_ListHoldsEveryActiveHabit ==
  [][\A c \in Clients :
       ( LoadData(c) \/ \E v \in TimesPerDayInputs, a \in CustomAmountInputs :
                           HandleStartHabit(c, v, a) )
       => /\ DOMAIN userHabits'[c] =
               {h \in DOMAIN user_habits' : user_habits'[h].is_active}
          /\ \A h \in DOMAIN userHabits'[c] :
               userHabits'[c][h].completions_today =
                 CountOn(habit_completions', h, today')]_vars

\* C30: every undoLast that reports success has taken exactly one completion
\* of today from its habit.
C30_UndoSuccessRemovesOne ==
  [][\A c \in Clients :
       ( UndoDelete(c) /\ result'.outcome = "success" )
       => CountOn(habit_completions', pc[c].habit, today) =
            CompletionsOn(pc[c].habit, today) - 1]_vars

\* C27: a record whose insert or whose streak update the store refuses, and
\* an undoLast whose delete the store refuses, report a failure to their
\* caller and never a success.
C27_NoFailureSwallowed ==
  [][\A c \in Clients :
       ( \/ \E h \in HabitIds : HandleCompleteInsertFails(c, h)
         \/ CompleteUpdateFails(c)
         \/ UndoDeleteFails(c) )
       => /\ result'.client = c
          /\ result'.outcome = "failed"]_vars
====
